---------------------------- MODULE Spec2Model ----------------------------
(***************************************************************************)
(* MAX98390 HDA side-codec driver (speaker-fix/src): identity resolution   *)
(* in the I2C probe, probe/remove, the component registry's bind/unbind,   *)
(* the playback hook, and runtime suspend/resume over the register map.    *)
(*                                                                         *)
(* Device names are sequences of one-character strings.  Register          *)
(* addresses and values are the decimal values of the C literals.          *)
(***************************************************************************)
EXTENDS Integers, Sequences, FiniteSets, TLC

(***************************************************************************)
(* Bounds of the model.                                                    *)
(***************************************************************************)
\* number of I2C client devices
MaxDev == 2
\* longest device name enumerated exhaustively in ResolveSpec
MaxNameLen == 3
\* most register accesses that fail in one handler call, short of all of them
MaxFaults == 1

(***************************************************************************)
(* Program constants.                                                      *)
(***************************************************************************)
HDA_MAX_COMPONENTS == 4
HDA_MAX_NAME_SIZE == 50

HDA_GEN_PCM_ACT_OPEN == 0
HDA_GEN_PCM_ACT_PREPARE == 1
HDA_GEN_PCM_ACT_CLEANUP == 2
HDA_GEN_PCM_ACT_CLOSE == 3

\* 0x2000
MAX98390_SOFTWARE_RESET == 8192
\* 0x2012
MAX98390_CLK_MON == 8210
\* 0x2014
MAX98390_DAT_MON == 8212
\* 0x201b
MAX98390_PCM_RX_EN_A == 8219
\* 0x2024
MAX98390_PCM_MODE_CFG == 8228
\* 0x2025
MAX98390_PCM_MASTER_MODE == 8229
\* 0x2026
MAX98390_PCM_CLK_SETUP == 8230
\* 0x2027
MAX98390_PCM_SR_SETUP == 8231
\* 0x203a
MAX98390_R203A_AMP_EN == 8250
\* 0x2050
MAX98390_PWR_GATE_CTL == 8272
\* 0x2076
MAX98390_ENV_TRACK_VOUT_HEADROOM == 8310
\* 0x207c
MAX98390_BOOST_BYPASS1 == 8316
\* 0x2081
MAX98390_FET_SCALING3 == 8321
\* 0x23e1
MAX98390_R23E1_DSP_GLOBAL_EN == 9185
\* 0x23FF
MAX98390_R23FF_GLOBAL_EN == 9215
\* 0x24FF
MAX98390_R24FF_REV_ID == 9471

\* errno values, as the negative return codes of the kernel
EINVAL == -22
ENOMEM == -12
EIO == -5
ERANGE == -34

\* the value of a register after power-on or a software reset; the reset
\* values of the chip are not part of the driver
ResetVal == -1

\* a null pointer to a function, a register map or the parent
NULL == "NULL"
\* a null struct device pointer: devices are numbered from 1
NoDev == 0
\* a null struct hda_component pointer: slots are numbered from 0
NoComp == -1
\* dev_get_drvdata of a device without driver state
NoPriv == [null |-> TRUE]
\* the address of max98390_hda_playback_hook
HOOK == "max98390_hda_playback_hook"
\* the controller's struct hda_component_parent, passed as master_data
PARENT == "parent"

Dev == 1..MaxDev
Slots == 0..(HDA_MAX_COMPONENTS - 1)

(***************************************************************************)
(* Strings and kstrtoint.                                                  *)
(***************************************************************************)
Digits == <<"0", "1", "2", "3", "4", "5", "6", "7", "8", "9">>
IsDigit(c) == \E i \in 1..10 : Digits[i] = c
DigitVal(c) == (CHOOSE i \in 1..10 : Digits[i] = c) - 1

\* strrchr(s, c): the position of the last c in s, 0 for a null result
strrchr(s, c) ==
    IF \E i \in 1..Len(s) : s[i] = c
    THEN CHOOSE i \in 1..Len(s) : s[i] = c /\ \A j \in (i+1)..Len(s) : s[j] # c
    ELSE 0

Tail0(s, n) == SubSeq(s, n + 1, Len(s))

\* _parse_integer: the length of the leading run of decimal digits
RECURSIVE DigitRun(_)
DigitRun(s) ==
    IF s # <<>> /\ IsDigit(Head(s)) THEN 1 + DigitRun(Tail(s)) ELSE 0

RECURSIVE StripZeros(_)
StripZeros(s) ==
    IF Len(s) > 1 /\ Head(s) = "0" THEN StripZeros(Tail(s)) ELSE s

\* digit strings of equal length compared as numbers
RECURSIVE DigitsLE(_, _)
DigitsLE(a, b) ==
    IF a = <<>> THEN TRUE
    ELSE IF DigitVal(Head(a)) < DigitVal(Head(b)) THEN TRUE
    ELSE IF DigitVal(Head(a)) > DigitVal(Head(b)) THEN FALSE
    ELSE DigitsLE(Tail(a), Tail(b))

\* INT_MAX = 2147483647 and -INT_MIN = 2147483648 as digit strings
IntMaxDigits == <<"2", "1", "4", "7", "4", "8", "3", "6", "4", "7">>
IntMinDigits == <<"2", "1", "4", "7", "4", "8", "3", "6", "4", "8">>

\* tmp == (int)tmp for the magnitude written by the digit string d
FitsInt(d, neg) ==
    LET z == StripZeros(d) IN
    \/ Len(z) < 10
    \/ Len(z) = 10 /\ DigitsLE(z, IF neg THEN IntMinDigits ELSE IntMaxDigits)

RECURSIVE DigitsValue(_, _)
DigitsValue(d, acc) ==
    IF d = <<>> THEN acc ELSE DigitsValue(Tail(d), 10 * acc + DigitVal(Head(d)))

\* The value of a negative digit string that fits: -INT_MIN itself is not an int
NegValue(d) ==
    IF StripZeros(d) = IntMinDigits
    THEN (0 - DigitsValue(IntMaxDigits, 0)) - 1
    ELSE 0 - DigitsValue(d, 0)

\* _kstrtoull: digits, an optional trailing newline, then the end of the string
UllOk(s) ==
    LET n == DigitRun(s)
        rest == Tail0(s, n)
    IN  n > 0 /\ (rest = <<>> \/ rest = <<"\n">>)

\* kstrtoint(s, 10, &res): [rv |-> 0, val |-> res] or [rv |-> error, val |-> 0]
kstrtoint(s) ==
    LET neg == s # <<>> /\ Head(s) = "-"
        body == IF s # <<>> /\ (Head(s) = "-" \/ Head(s) = "+") THEN Tail(s) ELSE s
        d == SubSeq(body, 1, DigitRun(body))
    IN  IF ~UllOk(body) THEN [rv |-> EINVAL, val |-> 0]
        ELSE IF ~FitsInt(d, neg) THEN [rv |-> ERANGE, val |-> 0]
        ELSE [rv |-> 0, val |-> IF neg THEN NegValue(d) ELSE DigitsValue(d, 0)]


(***************************************************************************)
(* Device names and bus addresses.                                         *)
(***************************************************************************)
NameChars == {"a", ".", "-", "+", "2", "7"}

RECURSIVE SeqsUpTo(_, _)
SeqsUpTo(S, n) ==
    IF n = 0 THEN {<<>>}
    ELSE LET shorter == SeqsUpTo(S, n - 1)
         IN  shorter \cup {Append(s, c) : s \in shorter, c \in S}

\* names whose suffix does not fit an int, is INT_MAX, ends in a newline,
\* or has a leading zero
LongNames ==
    { <<"a", ".">> \o IntMaxDigits,
      <<"a", ".">> \o IntMinDigits,
      <<"a", ".", "-">> \o IntMinDigits,
      <<"a", ".", "2", "\n">>,
      <<"a", ".", "0", "3">>,
      <<"a", ".", "2", "a">> }

AllNames == (SeqsUpTo(NameChars, MaxNameLen) \ {<<>>}) \cup LongNames

\* 0x38 .. 0x3d: the four addresses of the table and the two between them
AllAddrs == 56..61

\* The clients of the full driver model: name, I2C address.  Between them
\* they resolve to every slot 0..3, to slot 2 and slot 0 twice, to the
\* indices 4 and -1, and to no index.
Clients ==
    << [name |-> <<"a", ".", "2">>, addr |-> 56],
       [name |-> <<"b">>, addr |-> 60],
       [name |-> <<"c", ".", "4">>, addr |-> 57],
       [name |-> <<"d", ".", "-", "1">>, addr |-> 61],
       [name |-> <<"e", ".", "0">>, addr |-> 58],
       [name |-> <<"f">>, addr |-> 58],
       [name |-> <<"g", ".", "1">>, addr |-> 58],
       [name |-> <<"h", ".", "3">>, addr |-> 56],
       [name |-> <<"i">>, addr |-> 56] >>

(***************************************************************************)
(* State.                                                                  *)
(***************************************************************************)
VARIABLES
    clt,     \* clt[d]: the i2c_client of device d: dev_name and addr
    priv,    \* priv[d]: dev_get_drvdata(d): NULL or struct max98390_hda_priv
    comps,   \* parent->comps[0..3]: dev, name, playback_hook
    mutex,   \* parent->mutex: NULL or the thread holding it
    io,      \* the register accesses issued by the last handler, in order
    last,    \* the last handler that ran and what it returned
    life,    \* the stream lifecycle observed on one slot since its last Open
    pc,      \* pc[t]: where thread t stands inside a registry operation
    loc,     \* loc[t]: the locals of thread t's registry operation
    hw,      \* hw[d]: the registers of the amplifier behind device d
    rm,      \* rm[d]: the cache flags of d's struct regmap
    watch,   \* the devices whose registers and access results are followed
    fail,    \* the positions in io of the accesses that returned an error
    trail,   \* AMP_EN and GLOBAL_EN after each access of the last handler
    ob       \* ob[d]: what has happened to a followed device so far

vars == <<clt, priv, comps, mutex, io, last, life, pc, loc,
          hw, rm, watch, fail, trail, ob>>

\* the register file, the cache flags and the observations of the devices
pmvars == <<hw, rm, watch, fail, trail, ob>>

EmptySlot == [dev |-> NoDev, name |-> <<>>, playback_hook |-> NULL]

RegWrite(reg, val) == [op |-> "write", reg |-> reg, val |-> val]
RegRead(reg) == [op |-> "read", reg |-> reg, val |-> 0]
\* the call of max98390_configure_filters
FiltersCall == [op |-> "configure_filters", reg |-> 0, val |-> 0]

\* the calls on the register cache, the component framework
CacheOnlyCall(enable) ==
    [op |-> "regcache_cache_only", reg |-> 0, val |-> IF enable THEN 1 ELSE 0]
MarkDirtyCall == [op |-> "regcache_mark_dirty", reg |-> 0, val |-> 0]
SyncCall == [op |-> "regcache_sync", reg |-> 0, val |-> 0]
ComponentAddCall == [op |-> "component_add", reg |-> 0, val |-> 0]
ComponentDelCall == [op |-> "component_del", reg |-> 0, val |-> 0]

\* what a register access may return
RegmapRet == {0, EIO}

\* mid: the Prepare and Cleanup actions seen since the Open
NoLife == [phase |-> "idle", slot |-> 0, dev |-> NoDev, log |-> <<>>, mid |-> {}]

\* op: the handler; dev: its device; ret: what it returned; action: the PCM
\* action of a hook call; created: whether a probe allocated driver state;
\* index: the index a probe stored in it; old: the device that occupied the
\* addressed slot before the handler ran
Last(op, d, ret, action, created, index, old) ==
    [op |-> op, dev |-> d, ret |-> ret, action |-> action,
     created |-> created, index |-> index, old |-> old]

(***************************************************************************)
(* hda_scodec_component.h                                                  *)
(***************************************************************************)
\* ARRAY_SIZE(parent->comps)
ARRAY_SIZE_comps == HDA_MAX_COMPONENTS

\* mutant: an index past the array is clamped to the last slot
hda_component_from_index_Clamped(parent, index) ==
    IF parent = NULL THEN NoComp
    ELSE IF index < 0 THEN NoComp
    ELSE IF index >= ARRAY_SIZE_comps THEN ARRAY_SIZE_comps - 1
    ELSE index

\* the slot's index stands for &parent->comps[index]
hda_component_from_index(parent, index) ==
    IF parent = NULL THEN NoComp
    ELSE IF index < 0 \/ index >= ARRAY_SIZE_comps THEN NoComp
    ELSE index

(***************************************************************************)
(* max98390_hda_i2c.c: the component index of a client                     *)
(***************************************************************************)
\* mutant: the last table entry is one too high
AddrIndex_LastOff(addr) ==
    CASE addr = 56 -> 0
      [] addr = 57 -> 1
      [] addr = 60 -> 2
      [] addr = 61 -> 4
      [] OTHER -> -1

\* the switch on clt->addr; -1 for the default case
AddrIndex(addr) ==
    CASE addr = 56 -> 0
      [] addr = 57 -> 1
      [] addr = 60 -> 2
      [] addr = 61 -> 3
      [] OTHER -> -1

\* name_suffix && kstrtoint(name_suffix + 1, 10, &index) == 0
SuffixParses(name) ==
    LET p == strrchr(name, ".")
    IN  p # 0 /\ kstrtoint(Tail0(name, p)).rv = 0

SuffixValue(name) == kstrtoint(Tail0(name, strrchr(name, "."))).val

\* mutant: an unexpected address falls back to index 0
ResolveIndex_DefaultZero(name, addr) ==
    IF SuffixParses(name)
    THEN [ret |-> 0, index |-> SuffixValue(name)]
    ELSE IF AddrIndex(addr) # -1
         THEN [ret |-> 0, index |-> AddrIndex(addr)]
         ELSE [ret |-> 0, index |-> 0]

\* mutant: the address table is consulted before the suffix
ResolveIndex_AddrFirst(name, addr) ==
    IF AddrIndex(addr) # -1
    THEN [ret |-> 0, index |-> AddrIndex(addr)]
    ELSE IF SuffixParses(name)
         THEN [ret |-> 0, index |-> SuffixValue(name)]
         ELSE [ret |-> EINVAL, index |-> 0]

\* [ret |-> 0, index |-> i], or [ret |-> -EINVAL] for an unexpected address
ResolveIndex(name, addr) ==
    IF SuffixParses(name)
    THEN [ret |-> 0, index |-> SuffixValue(name)]
    ELSE IF AddrIndex(addr) # -1
         THEN [ret |-> 0, index |-> AddrIndex(addr)]
         ELSE [ret |-> EINVAL, index |-> 0]

(***************************************************************************)
(* max98390_regs.h: the register map.  The map is created with             *)
(* cache_type REGCACHE_NONE, so it has no cache: every write goes to the   *)
(* bus whatever the cache flags say, and a sync has nothing to replay.     *)
(***************************************************************************)
\* The registers whose value is followed: the two that the playback hook,
\* suspend and remove write.  The others are written by the initialization
\* only and never read.
Regs == { MAX98390_R203A_AMP_EN, MAX98390_R23FF_GLOBAL_EN }

\* .cache_type of max98390_regmap
cache_type == "REGCACHE_NONE"

\* regcache_init sets map->cache_bypass for REGCACHE_NONE
cache_bypass == cache_type = "REGCACHE_NONE"

\* the registers after power-on or reset, and a newly created map
FreshHw == [r \in Regs |-> ResetVal]
FreshMap == [cache_only |-> FALSE, cache_dirty |-> FALSE]

\* what is followed of a device: the dispatcher state of its stream; whether
\* a Suspend and a Resume came since the last Open or Close (cyc) and whether
\* a Suspend among them got its write through (cycok); the writes issued
\* while the map was cache-only, last value per register (pend); how its
\* last probe ended; whether it is initialized and no register access has
\* failed since its initialization began (clean)
NoOb == [stream |-> "closed", cyc |-> "none", cycok |-> FALSE,
         pend |-> {}, probe |-> "none", clean |-> FALSE]

IsAccess(a) == a.op \in {"read", "write"}

\* the last value per register among the writes issued while cache-only
PendPut(pend, reg, val) ==
    {e \in pend : e.reg # reg} \cup {[reg |-> reg, val |-> val]}

Snapshot(h) ==
    [amp |-> h[MAX98390_R203A_AMP_EN], global |-> h[MAX98390_R23FF_GLOBAL_EN]]

\* regmap_write: with a cache and cache_only set the value stays in the
\* cache; otherwise it goes to the bus, where the write may fail and then
\* leaves the register as it was.  A software reset that arrives puts every
\* register back to its reset value.
regmap_write(st, reg, val, failed) ==
    LET tobus == cache_bypass \/ ~st.rm.cache_only
        h == IF ~tobus \/ failed THEN st.hw
             ELSE IF reg = MAX98390_SOFTWARE_RESET THEN FreshHw
             ELSE IF reg \in Regs THEN [st.hw EXCEPT ![reg] = val]
             ELSE st.hw
    IN  [st EXCEPT !.hw = h,
                   !.pend = IF st.rm.cache_only
                            THEN PendPut(st.pend, reg, val) ELSE st.pend]

\* the bus writes of a sync: one per register written while cache-only
RECURSIVE Replay(_, _)
Replay(h, pend) ==
    IF pend = {} THEN h
    ELSE LET e == CHOOSE x \in pend : TRUE
         IN  Replay([h EXCEPT ![e.reg] = e.val], pend \ {e})

\* regcache_sync: -EINVAL, and nothing written, for a map without a cache
regcache_sync(st) ==
    IF cache_type = "REGCACHE_NONE" THEN st
    ELSE [st EXCEPT !.hw = Replay(st.hw, st.pend),
                    !.rm.cache_dirty = FALSE]

\* one access or call of a handler applied to the device
Step(st, a, failed) ==
    LET t == CASE a.op = "write" -> regmap_write(st, a.reg, a.val, failed)
               [] a.op = "regcache_cache_only" ->
                      [st EXCEPT !.rm.cache_only = (a.val = 1)]
               [] a.op = "regcache_mark_dirty" ->
                      [st EXCEPT !.rm.cache_dirty = TRUE]
               [] a.op = "regcache_sync" -> regcache_sync(st)
               [] OTHER -> st
    IN  [t EXCEPT !.trail = Append(t.trail, Snapshot(t.hw))]

\* the accesses acc from position i on, those at the positions F failing
RECURSIVE Exec(_, _, _, _)
Exec(st, acc, F, i) ==
    IF i > Len(acc) THEN st
    ELSE Exec(Step(st, acc[i], i \in F), acc, F, i + 1)

\* a device with registers h, map m and pending writes pend after a handler
\* issued acc
After(acc, F, h, m, pend) ==
    Exec([hw |-> h, rm |-> m, pend |-> pend, trail |-> << >>], acc, F, 1)

\* ob after a handler on device d changed what is followed of it to o
Observe(d, o) ==
    ob' = IF d \in watch THEN [ob EXCEPT ![d] = o] ELSE ob

\* the subsets of P of at most n elements
RECURSIVE SubsetsUpTo(_, _)
SubsetsUpTo(P, n) ==
    IF n = 0 THEN {{}}
    ELSE LET less == SubsetsUpTo(P, n - 1)
         IN  less \cup {S \cup {x} : S \in less, x \in P}

\* The failures tried for the accesses of acc from position lo on: up to
\* MaxFaults of them, or all; none are drawn for a device not followed.
FaultSets(d, acc, lo) ==
    IF d \notin watch THEN {{}}
    ELSE LET P == {i \in lo..Len(acc) : IsAccess(acc[i])}
         IN  SubsetsUpTo(P, MaxFaults) \cup {P}

\* the accesses a handler issues when those at F fail: none of the
\* handlers stops at a failed write
Issued_StopAtFailure(acc, F) ==
    IF F = {} THEN acc
    ELSE SubSeq(acc, 1, CHOOSE i \in F : \A j \in F : i <= j)

Issued(acc, F) == acc

\* hw, rm, fail and trail after a handler on device d
Device(d, st, F) ==
    /\ hw' = IF d \in watch THEN [hw EXCEPT ![d] = st.hw] ELSE hw
    /\ rm' = [rm EXCEPT ![d] = st.rm]
    /\ fail' = IF d \in watch THEN F ELSE {}
    /\ trail' = IF d \in watch THEN st.trail ELSE << >>
    /\ UNCHANGED watch

\* a handler that touches no device
NoDevice ==
    /\ fail' = {}
    /\ trail' = << >>
    /\ UNCHANGED <<hw, rm, watch, ob>>

(***************************************************************************)
(* max98390_hda.c: the playback hook                                       *)
(***************************************************************************)
\* mutant: the amplifier is enabled before the global enable
HookOpenWrites_AmpFirst ==
    << RegWrite(MAX98390_R203A_AMP_EN, 129),
       RegWrite(MAX98390_R23FF_GLOBAL_EN, 1) >>

\* case HDA_GEN_PCM_ACT_OPEN
HookOpenWrites ==
    << RegWrite(MAX98390_R23FF_GLOBAL_EN, 1),
       RegWrite(MAX98390_R203A_AMP_EN, 129) >>

\* mutant: the global enable is cleared before the amplifier is disabled
HookCloseWrites_GlobalFirst ==
    << RegWrite(MAX98390_R23FF_GLOBAL_EN, 0),
       RegWrite(MAX98390_R203A_AMP_EN, 128) >>

\* case HDA_GEN_PCM_ACT_CLOSE
HookCloseWrites ==
    << RegWrite(MAX98390_R203A_AMP_EN, 128),
       RegWrite(MAX98390_R23FF_GLOBAL_EN, 0) >>

\* mutant: the other actions disable the amplifier
HookDefaultWrites_AmpOff == << RegWrite(MAX98390_R203A_AMP_EN, 128) >>

\* default: Prepare, Cleanup and any other action
HookDefaultWrites == << >>

\* mutant: Open enables the amplifier without the global enable
HookWrites_OpenAmpOnly(action) ==
    CASE action = HDA_GEN_PCM_ACT_OPEN -> << RegWrite(MAX98390_R203A_AMP_EN, 129) >>
      [] action = HDA_GEN_PCM_ACT_CLOSE -> HookCloseWrites
      [] OTHER -> HookDefaultWrites

\* the register writes max98390_hda_playback_hook issues for an action
HookWrites(action) ==
    CASE action = HDA_GEN_PCM_ACT_OPEN -> HookOpenWrites
      [] action = HDA_GEN_PCM_ACT_CLOSE -> HookCloseWrites
      [] OTHER -> HookDefaultWrites

\* The lifecycle observed on a slot: an Open starts it, Prepare and Cleanup
\* continue it, Close ends it; a hook call for another device on the slot, or
\* a call outside a lifecycle, drops it.
LifeAfter(l, slot, d, action, w) ==
    IF action = HDA_GEN_PCM_ACT_OPEN
    THEN [phase |-> "open", slot |-> slot, dev |-> d, log |-> w, mid |-> {}]
    ELSE IF l.phase = "idle" \/ l.slot # slot THEN l
    ELSE IF l.phase = "open" /\ l.dev = d
         THEN [l EXCEPT !.phase = IF action = HDA_GEN_PCM_ACT_CLOSE
                                  THEN "closed" ELSE "open",
                        !.log = l.log \o w,
                        !.mid = IF action = HDA_GEN_PCM_ACT_CLOSE
                                THEN l.mid ELSE l.mid \cup {action}]
         ELSE NoLife

PcmActions ==
    { HDA_GEN_PCM_ACT_OPEN, HDA_GEN_PCM_ACT_PREPARE,
      HDA_GEN_PCM_ACT_CLEANUP, HDA_GEN_PCM_ACT_CLOSE }

\* the dispatcher state after an action: Open opens the stream, Close closes
\* it, and either starts a new count of the Suspends and Resumes
HookOb(o, action, pend, F) ==
    IF action \in {HDA_GEN_PCM_ACT_OPEN, HDA_GEN_PCM_ACT_CLOSE}
    THEN [o EXCEPT !.stream = IF action = HDA_GEN_PCM_ACT_OPEN
                              THEN "open" ELSE "closed",
                   !.cyc = "none", !.cycok = FALSE, !.pend = pend,
                   !.clean = o.clean /\ F = {}]
    ELSE [o EXCEPT !.pend = pend]

\* max98390_hda_playback_hook(dev, action); the return values of the writes
\* are only logged
max98390_hda_playback_hook(slot, d, action) ==
    /\ priv[d] # NoPriv
    /\ \E F \in FaultSets(d, HookWrites(action), 1) :
          LET acc == Issued(HookWrites(action), F)
              st == After(acc, F, hw[d], rm[d], ob[d].pend)
          IN  /\ io' = acc
              /\ Device(d, st, F)
              /\ Observe(d, HookOb(ob[d], action, st.pend, F))
              /\ life' = LifeAfter(life, slot, d, action, acc)
    /\ last' = Last("playback_hook", d, 0, action, FALSE, 0, d)
    /\ UNCHANGED <<clt, priv, comps, mutex, pc, loc>>

\* The controller calls the playback hook stored in a bound slot with the
\* device stored beside it.
PlaybackHook(slot, action) ==
    /\ comps[slot].dev # NoDev
    /\ comps[slot].playback_hook = HOOK
    /\ max98390_hda_playback_hook(slot, comps[slot].dev, action)

(***************************************************************************)
(* max98390_hda.c: bind and unbind                                         *)
(***************************************************************************)
Min(a, b) == IF a < b THEN a ELSE b

\* strscpy(dst, src, size): at most size - 1 characters are copied
strscpy(src, size) == SubSeq(src, 1, Min(Len(src), size - 1))

dev_name(d) == clt[d].name

\* the three stores of max98390_hda_bind into slot comp
BindSlot(d) ==
    [dev |-> d,
     name |-> strscpy(dev_name(d), HDA_MAX_NAME_SIZE),
     playback_hook |-> HOOK]

\* mutant: a slot another device occupies is left alone
BindComps_KeepOccupied(cs, d) ==
    LET comp == hda_component_from_index(PARENT, priv[d].index)
    IN  IF comp = NoComp \/ cs[comp].dev \notin {NoDev, d} THEN cs
        ELSE [cs EXCEPT ![comp] = BindSlot(d)]

\* the slot array after max98390_hda_bind(dev = d)
BindComps(cs, d) ==
    LET comp == hda_component_from_index(PARENT, priv[d].index)
    IN  IF comp = NoComp THEN cs ELSE [cs EXCEPT ![comp] = BindSlot(d)]

BindRet(d) ==
    IF hda_component_from_index(PARENT, priv[d].index) = NoComp THEN EINVAL ELSE 0

\* mutant: the occupant is not compared with the caller
UnbindMatches_AnyOccupant(cs, d, index) ==
    hda_component_from_index(PARENT, index) # NoComp

\* if (comp && comp->dev == dev)
UnbindMatches(cs, d, index) ==
    LET comp == hda_component_from_index(PARENT, index)
    IN  comp # NoComp /\ cs[comp].dev = d

\* the slot array after max98390_hda_unbind(dev = d), d's index being index
UnbindComps(cs, d, index) ==
    IF UnbindMatches(cs, d, index)
    THEN [cs EXCEPT ![hda_component_from_index(PARENT, index)] = EmptySlot]
    ELSE cs

\* the device stored in the slot an operation on index addresses
Occupant(cs, index) ==
    LET comp == hda_component_from_index(PARENT, index)
    IN  IF comp = NoComp THEN NoDev ELSE cs[comp].dev

\* max98390_hda_bind, called by the component framework for a registered
\* component
Bind(d) ==
    /\ priv[d] # NoPriv
    /\ comps' = BindComps(comps, d)
    /\ last' = Last("bind", d, BindRet(d), 0, FALSE, 0,
                  Occupant(comps, priv[d].index))
    /\ io' = << >>
    /\ NoDevice
    /\ UNCHANGED <<clt, priv, mutex, life, pc, loc>>

\* max98390_hda_unbind, called by the component framework
Unbind(d) ==
    /\ priv[d] # NoPriv
    /\ comps' = UnbindComps(comps, d, priv[d].index)
    /\ last' = Last("unbind", d, 0, 0, FALSE, 0,
                  Occupant(comps, priv[d].index))
    /\ io' = << >>
    /\ NoDevice
    /\ UNCHANGED <<clt, priv, mutex, life, pc, loc>>

(***************************************************************************)
(* max98390_hda.c: initialization, probe and remove                        *)
(***************************************************************************)
\* mutant: the amplifier is disabled before the global enable is cleared
InitWrites_AmpBeforeGlobal ==
    << RegWrite(MAX98390_CLK_MON, 111),
       RegWrite(MAX98390_DAT_MON, 0),
       RegWrite(MAX98390_PWR_GATE_CTL, 0),
       RegWrite(MAX98390_PCM_RX_EN_A, 3),
       RegWrite(MAX98390_ENV_TRACK_VOUT_HEADROOM, 14),
       RegWrite(MAX98390_BOOST_BYPASS1, 70),
       RegWrite(MAX98390_FET_SCALING3, 3),
       RegWrite(MAX98390_PCM_MODE_CFG, 192),
       RegWrite(MAX98390_PCM_MASTER_MODE, 28),
       RegWrite(MAX98390_PCM_CLK_SETUP, 68),
       RegWrite(MAX98390_PCM_SR_SETUP, 8),
       RegWrite(MAX98390_R203A_AMP_EN, 128),
       RegWrite(MAX98390_R23FF_GLOBAL_EN, 0),
       RegWrite(MAX98390_R23E1_DSP_GLOBAL_EN, 0) >>

\* the writes of max98390_hda_init after the software reset, whose return
\* values are discarded
InitWrites ==
    << RegWrite(MAX98390_CLK_MON, 111),
       RegWrite(MAX98390_DAT_MON, 0),
       RegWrite(MAX98390_PWR_GATE_CTL, 0),
       RegWrite(MAX98390_PCM_RX_EN_A, 3),
       RegWrite(MAX98390_ENV_TRACK_VOUT_HEADROOM, 14),
       RegWrite(MAX98390_BOOST_BYPASS1, 70),
       RegWrite(MAX98390_FET_SCALING3, 3),
       RegWrite(MAX98390_PCM_MODE_CFG, 192),
       RegWrite(MAX98390_PCM_MASTER_MODE, 28),
       RegWrite(MAX98390_PCM_CLK_SETUP, 68),
       RegWrite(MAX98390_PCM_SR_SETUP, 8),
       RegWrite(MAX98390_R23FF_GLOBAL_EN, 0),
       RegWrite(MAX98390_R203A_AMP_EN, 128),
       RegWrite(MAX98390_R23E1_DSP_GLOBAL_EN, 0) >>

\* mutant: what the write of SOFTWARE_RESET returns is dropped like the rest
max98390_hda_init_ResetIgnored(rr, rw) ==
    IF rr < 0
    THEN [ret |-> rr, io |-> << RegRead(MAX98390_R24FF_REV_ID) >>]
    ELSE [ret |-> 0, io |-> << RegRead(MAX98390_R24FF_REV_ID),
                              RegWrite(MAX98390_SOFTWARE_RESET, 1) >>
                            \o InitWrites \o << FiltersCall >>]

\* max98390_hda_init: rr is what the read of REV_ID returns, rw what the
\* write of SOFTWARE_RESET returns
max98390_hda_init(rr, rw) ==
    IF rr < 0
    THEN [ret |-> rr, io |-> << RegRead(MAX98390_R24FF_REV_ID) >>]
    ELSE IF rw < 0
    THEN [ret |-> rw, io |-> << RegRead(MAX98390_R24FF_REV_ID),
                               RegWrite(MAX98390_SOFTWARE_RESET, 1) >>]
    ELSE [ret |-> 0, io |-> << RegRead(MAX98390_R24FF_REV_ID),
                              RegWrite(MAX98390_SOFTWARE_RESET, 1) >>
                            \o InitWrites \o << FiltersCall >>]

\* how a probe ended, for the record kept of a followed device
ProbeEnd(alloc, rr, rw, ret) ==
    IF ~alloc THEN "alloc"
    ELSE IF rr < 0 THEN "rev_id"
    ELSE IF rw < 0 THEN "reset"
    ELSE IF ret # 0 THEN "component_add"
    ELSE "ok"

\* the driver state max98390_hda_probe fills in
PrivOf(d, id, i2c_addr) ==
    [dev |-> d, regmap |-> "regmap", bus_type |-> "MAX98390_HDA_I2C",
     index |-> id, i2c_addr |-> i2c_addr]

\* what component_add may return
ComponentAddRet == {0, ENOMEM}

\* max98390_hda_probe.  alloc: devm_kzalloc succeeds.  The driver state is
\* device-managed: a probe that fails leaves none behind.  The register map
\* is the one the I2C probe has just created.
max98390_hda_probe(d, id, i2c_addr) ==
    \E alloc \in BOOLEAN, rr \in RegmapRet, rw \in RegmapRet, rc \in ComponentAddRet :
        \* what a step that is not reached returns is not drawn twice
        /\ ~alloc => rr = 0
        /\ (~alloc \/ rr < 0) => rw = 0
        /\ (~alloc \/ rr < 0 \/ rw < 0) => rc = 0
        /\ LET ini == max98390_hda_init(rr, rw)
               ret == IF ~alloc THEN ENOMEM
                      ELSE IF ini.ret # 0 THEN ini.ret
                      ELSE rc
               acc == IF ~alloc THEN << >>
                      ELSE IF ini.ret # 0 THEN ini.io
                      ELSE ini.io \o << ComponentAddCall >>
               fatal == IF ~alloc THEN {}
                        ELSE IF rr < 0 THEN {1}
                        ELSE IF rw < 0 THEN {2}
                        ELSE {}
           IN  /\ priv' = [priv EXCEPT ![d] = IF ret = 0 THEN PrivOf(d, id, i2c_addr)
                                              ELSE NoPriv]
               /\ io' = acc
               /\ \E F \in FaultSets(d, acc, 3) :
                     /\ Device(d, After(acc, fatal \cup F, hw[d], FreshMap, {}),
                               fatal \cup F)
                     /\ Observe(d, [NoOb EXCEPT
                                      !.probe = ProbeEnd(alloc, rr, rw, ret),
                                      !.clean = (ret = 0 /\ F = {})])
               /\ last' = Last("i2c_probe", d, ret, 0, alloc,
                               IF alloc THEN id ELSE 0, NoDev)
               /\ UNCHANGED <<clt, comps, mutex, life, pc, loc>>

\* max98390_hda_i2c_probe of a client no driver is bound to
I2cProbe(d) ==
    /\ priv[d] = NoPriv
    /\ LET r == ResolveIndex(dev_name(d), clt[d].addr)
       IN  IF r.ret # 0
           THEN /\ last' = Last("i2c_probe", d, r.ret, 0, FALSE, 0, NoDev)
                /\ io' = << >>
                /\ fail' = {}
                /\ trail' = << >>
                /\ Observe(d, [NoOb EXCEPT !.probe = "address"])
                /\ UNCHANGED <<clt, priv, comps, mutex, life, pc, loc,
                               hw, rm, watch>>
           ELSE max98390_hda_probe(d, r.index, clt[d].addr)

\* mutant: the write is issued without looking at the driver state
RemoveWrites_Unguarded(p) == << RegWrite(MAX98390_R203A_AMP_EN, 128) >>

\* the register writes of max98390_hda_remove
RemoveWrites(p) ==
    IF p # NoPriv /\ p.regmap # NULL
    THEN << RegWrite(MAX98390_R203A_AMP_EN, 128) >>
    ELSE << >>

\* mutant: the amplifier is disabled before the component is deleted
RemoveSteps_WriteFirst(p) == RemoveWrites(p) \o << ComponentDelCall >>

\* component_del, then the write
RemoveSteps(p) == << ComponentDelCall >> \o RemoveWrites(p)

\* max98390_hda_remove.  component_del has the framework call
\* max98390_hda_unbind of a component that was added, and does nothing for a
\* device without driver state, whose probe added none.  The driver state
\* and the register map are released after the return.
Remove(d) ==
    /\ comps' = IF priv[d] = NoPriv THEN comps
                ELSE UnbindComps(comps, d, priv[d].index)
    /\ \E F \in FaultSets(d, RemoveSteps(priv[d]), 1) :
          LET acc == Issued(RemoveSteps(priv[d]), F)
          IN  /\ io' = acc
              /\ Device(d, [After(acc, F, hw[d], rm[d], {})
                               EXCEPT !.rm = FreshMap], F)
    /\ Observe(d, [NoOb EXCEPT !.probe = ob[d].probe])
    /\ priv' = [priv EXCEPT ![d] = NoPriv]
    /\ last' = Last("remove", d, 0, 0, FALSE, 0,
                    IF priv[d] = NoPriv THEN NoDev
                    ELSE Occupant(comps, priv[d].index))
    /\ UNCHANGED <<clt, mutex, life, pc, loc>>

\* mutant: the cache is made cache-only before the amplifier is disabled
SuspendSteps_CacheFirst ==
    << CacheOnlyCall(TRUE),
       RegWrite(MAX98390_R203A_AMP_EN, 128),
       MarkDirtyCall >>

\* the calls of max98390_hda_runtime_suspend
SuspendSteps ==
    << RegWrite(MAX98390_R203A_AMP_EN, 128),
       CacheOnlyCall(TRUE),
       MarkDirtyCall >>

\* some write of AMP_EN = 0x80 among acc did not fail
AmpOffArrived(acc, F) ==
    \E i \in 1..Len(acc) :
        acc[i] = RegWrite(MAX98390_R203A_AMP_EN, 128) /\ i \notin F

\* max98390_hda_runtime_suspend of a device a driver is bound to; runtime
\* power management suspends an active device only
Suspend(d) ==
    /\ priv[d] # NoPriv
    /\ ~rm[d].cache_only
    /\ \E F \in FaultSets(d, SuspendSteps, 1) :
          LET acc == Issued(SuspendSteps, F)
              st == After(acc, F, hw[d], rm[d], {})
          IN  /\ io' = acc
              /\ Device(d, st, F)
              /\ Observe(d, [ob[d] EXCEPT
                                !.cyc = "suspended",
                                !.cycok = ob[d].cycok \/ AmpOffArrived(acc, F),
                                !.pend = st.pend,
                                !.clean = ob[d].clean /\ F = {}])
    /\ last' = Last("suspend", d, 0, 0, FALSE, 0, NoDev)
    /\ UNCHANGED <<clt, priv, comps, mutex, life, pc, loc>>

\* mutant: the amplifier is enabled again at the end of a resume
ResumeSteps_AmpOn ==
    << CacheOnlyCall(FALSE), SyncCall, RegWrite(MAX98390_R203A_AMP_EN, 129) >>

\* the calls of max98390_hda_runtime_resume
ResumeSteps == << CacheOnlyCall(FALSE), SyncCall >>

\* max98390_hda_runtime_resume of a suspended device; what regcache_sync
\* returns is dropped
Resume(d) ==
    /\ priv[d] # NoPriv
    /\ rm[d].cache_only
    /\ \E F \in FaultSets(d, ResumeSteps, 1) :
          LET acc == Issued(ResumeSteps, F)
              st == After(acc, F, hw[d], rm[d], ob[d].pend)
          IN  /\ io' = acc
              /\ Device(d, st, F)
              /\ Observe(d, [ob[d] EXCEPT
                                !.cyc = IF ob[d].cyc = "suspended"
                                        THEN "resumed" ELSE ob[d].cyc,
                                !.pend = st.pend,
                                !.clean = ob[d].clean /\ F = {}])
    /\ last' = Last("resume", d, 0, 0, FALSE, 0, NoDev)
    /\ UNCHANGED <<clt, priv, comps, mutex, life, pc, loc>>

(***************************************************************************)
(* Specifications.                                                         *)
(***************************************************************************)
Threads == {"enum", "stream"}

NoLoc == [op |-> "none", dev |-> NoDev, slot |-> 0, seen |-> EmptySlot]

InitRest ==
    /\ priv = [d \in Dev |-> NoPriv]
    /\ comps = [i \in Slots |-> EmptySlot]
    /\ mutex = NULL
    /\ io = << >>
    /\ last = Last("none", NoDev, 0, 0, FALSE, 0, NoDev)
    /\ life = NoLife
    /\ pc = [t \in Threads |-> "idle"]
    /\ loc = [t \in Threads |-> NoLoc]
    /\ hw = [d \in Dev |-> FreshHw]
    /\ rm = [d \in Dev |-> FreshMap]
    /\ fail = {}
    /\ trail = << >>
    /\ ob = [d \in Dev |-> NoOb]

\* The devices are distinct clients, numbered in the order of the list.
Init ==
    /\ \E f \in [Dev -> 1..Len(Clients)] :
          /\ \A d, e \in Dev : d < e => f[d] < f[e]
          /\ clt = [d \in Dev |-> Clients[f[d]]]
    /\ InitRest
    /\ watch = {}

Next ==
    \/ \E d \in Dev : I2cProbe(d)
    \/ \E d \in Dev : Remove(d)
    \/ \E d \in Dev : Bind(d)
    \/ \E d \in Dev : Unbind(d)
    \/ \E slot \in Slots, action \in PcmActions : PlaybackHook(slot, action)

Spec == Init /\ [][Next]_vars

\* One client of every name and address; the other clients stay unprobed.
OtherClient == [name |-> <<"b">>, addr |-> 60]

ResolveInit ==
    /\ \E c \in [name : AllNames, addr : AllAddrs] :
          clt = [d \in Dev |-> IF d = 1 THEN c ELSE OtherClient]
    /\ InitRest
    /\ watch = {}

ResolveNext ==
    \/ I2cProbe(1)
    \/ Remove(1)
    \/ Bind(1)
    \/ Unbind(1)

ResolveSpec == ResolveInit /\ [][ResolveNext]_vars

\* One device under power management, its registers and the outcome of every
\* register access followed; the other clients stay unprobed.  The device is
\* one that binds to slot 2, one whose bind is refused (index 4), or one
\* whose probe is refused (no suffix, address outside the table).
PmClients ==
    { [name |-> <<"a", ".", "2">>, addr |-> 56],
      [name |-> <<"c", ".", "4">>, addr |-> 57],
      [name |-> <<"f">>, addr |-> 58] }

PmInit ==
    /\ \E c \in PmClients :
          clt = [d \in Dev |-> IF d = 1 THEN c ELSE OtherClient]
    /\ InitRest
    /\ watch = {1}

PmNext ==
    \/ I2cProbe(1)
    \/ Remove(1)
    \/ Bind(1)
    \/ Unbind(1)
    \/ \E slot \in Slots, action \in PcmActions : PlaybackHook(slot, action)
    \/ Suspend(1)
    \/ Resume(1)

PmSpec == PmInit /\ [][PmNext]_vars

(***************************************************************************)
(* The registry operations as the memory accesses they are made of.  The   *)
(* enumeration thread runs max98390_hda_bind and max98390_hda_unbind, the  *)
(* stream thread reads a slot.  Neither function takes parent->mutex, and  *)
(* no code of the driver does.                                             *)
(***************************************************************************)
Idle(t) == pc[t] = "idle"

ConcFrame == UNCHANGED <<clt, priv, mutex, io, life, pmvars>>

\* probe of a client while the enumeration thread is between operations
ConcProbe(d) ==
    /\ Idle("enum")
    /\ I2cProbe(d)

\* max98390_hda_bind: comp = hda_component_from_index(parent, priv->index)
BindEnter(d) ==
    /\ Idle("enum")
    /\ priv[d] # NoPriv
    /\ LET comp == hda_component_from_index(PARENT, priv[d].index)
       IN  IF comp = NoComp
           THEN /\ last' = Last("bind", d, EINVAL, 0, FALSE, 0, NoDev)
                /\ UNCHANGED <<pc, loc>>
           ELSE /\ pc' = [pc EXCEPT !["enum"] = "bind_dev"]
                /\ loc' = [loc EXCEPT !["enum"] =
                              [op |-> "bind", dev |-> d, slot |-> comp,
                               seen |-> EmptySlot]]
                /\ UNCHANGED last
    /\ UNCHANGED comps
    /\ ConcFrame

\* comp->dev = dev
BindStoreDev ==
    /\ pc["enum"] = "bind_dev"
    /\ comps' = [comps EXCEPT ![loc["enum"].slot].dev = loc["enum"].dev]
    /\ pc' = [pc EXCEPT !["enum"] = "bind_name"]
    /\ UNCHANGED <<last, loc>>
    /\ ConcFrame

\* strscpy(comp->name, dev_name(dev), sizeof(comp->name))
BindStoreName ==
    /\ pc["enum"] = "bind_name"
    /\ comps' = [comps EXCEPT ![loc["enum"].slot].name =
                    strscpy(dev_name(loc["enum"].dev), HDA_MAX_NAME_SIZE)]
    /\ pc' = [pc EXCEPT !["enum"] = "bind_hook"]
    /\ UNCHANGED <<last, loc>>
    /\ ConcFrame

\* comp->playback_hook = max98390_hda_playback_hook; return 0
BindStoreHook ==
    /\ pc["enum"] = "bind_hook"
    /\ comps' = [comps EXCEPT ![loc["enum"].slot].playback_hook = HOOK]
    /\ pc' = [pc EXCEPT !["enum"] = "idle"]
    /\ last' = Last("bind", loc["enum"].dev, 0, 0, FALSE, 0, NoDev)
    /\ loc' = [loc EXCEPT !["enum"] = NoLoc]
    /\ ConcFrame

\* max98390_hda_unbind: if (comp && comp->dev == dev)
UnbindEnter(d) ==
    /\ Idle("enum")
    /\ priv[d] # NoPriv
    /\ IF UnbindMatches(comps, d, priv[d].index)
       THEN /\ pc' = [pc EXCEPT !["enum"] = "unbind_dev"]
            /\ loc' = [loc EXCEPT !["enum"] =
                          [op |-> "unbind", dev |-> d,
                           slot |-> hda_component_from_index(PARENT, priv[d].index),
                           seen |-> EmptySlot]]
            /\ UNCHANGED last
       ELSE /\ last' = Last("unbind", d, 0, 0, FALSE, 0, NoDev)
            /\ UNCHANGED <<pc, loc>>
    /\ UNCHANGED comps
    /\ ConcFrame

\* comp->dev = NULL
UnbindClearDev ==
    /\ pc["enum"] = "unbind_dev"
    /\ comps' = [comps EXCEPT ![loc["enum"].slot].dev = NoDev]
    /\ pc' = [pc EXCEPT !["enum"] = "unbind_name"]
    /\ UNCHANGED <<last, loc>>
    /\ ConcFrame

\* memset(comp->name, 0, sizeof(comp->name))
UnbindClearName ==
    /\ pc["enum"] = "unbind_name"
    /\ comps' = [comps EXCEPT ![loc["enum"].slot].name = << >>]
    /\ pc' = [pc EXCEPT !["enum"] = "unbind_hook"]
    /\ UNCHANGED <<last, loc>>
    /\ ConcFrame

\* comp->playback_hook = NULL
UnbindClearHook ==
    /\ pc["enum"] = "unbind_hook"
    /\ comps' = [comps EXCEPT ![loc["enum"].slot].playback_hook = NULL]
    /\ pc' = [pc EXCEPT !["enum"] = "idle"]
    /\ last' = Last("unbind", loc["enum"].dev, 0, 0, FALSE, 0, NoDev)
    /\ loc' = [loc EXCEPT !["enum"] = NoLoc]
    /\ ConcFrame

\* the stream thread reads a slot: comp = hda_component_from_index(parent, i)
LookupEnter(i) ==
    /\ Idle("stream")
    /\ hda_component_from_index(PARENT, i) # NoComp
    /\ pc' = [pc EXCEPT !["stream"] = "look_dev"]
    /\ loc' = [loc EXCEPT !["stream"] =
                  [op |-> "lookup", dev |-> NoDev, slot |-> i, seen |-> EmptySlot]]
    /\ UNCHANGED <<comps, last>>
    /\ ConcFrame

\* read of comp->dev
LookupReadDev ==
    /\ pc["stream"] = "look_dev"
    /\ loc' = [loc EXCEPT !["stream"].seen.dev = comps[loc["stream"].slot].dev]
    /\ pc' = [pc EXCEPT !["stream"] = "look_name"]
    /\ UNCHANGED <<comps, last>>
    /\ ConcFrame

\* read of comp->name
LookupReadName ==
    /\ pc["stream"] = "look_name"
    /\ loc' = [loc EXCEPT !["stream"].seen.name = comps[loc["stream"].slot].name]
    /\ pc' = [pc EXCEPT !["stream"] = "look_hook"]
    /\ UNCHANGED <<comps, last>>
    /\ ConcFrame

\* read of comp->playback_hook; the snapshot stays in loc until the next read
LookupReadHook ==
    /\ pc["stream"] = "look_hook"
    /\ loc' = [loc EXCEPT !["stream"].seen.playback_hook =
                  comps[loc["stream"].slot].playback_hook,
                          !["stream"].op = "looked"]
    /\ pc' = [pc EXCEPT !["stream"] = "idle"]
    /\ UNCHANGED <<comps, last>>
    /\ ConcFrame

\* The controller's stream thread calls the playback hook of a slot: it
\* tests comp->dev and comp->playback_hook and calls comp->playback_hook
\* (comp->dev, action), without parent->mutex.
InvokeEnter(i) ==
    /\ Idle("stream")
    /\ hda_component_from_index(PARENT, i) # NoComp
    /\ pc' = [pc EXCEPT !["stream"] = "inv_dev"]
    /\ loc' = [loc EXCEPT !["stream"] =
                  [op |-> "invoke", dev |-> NoDev, slot |-> i, seen |-> EmptySlot]]
    /\ UNCHANGED <<comps, last>>
    /\ ConcFrame

\* if (comp->dev ...
InvokeTestDev ==
    /\ pc["stream"] = "inv_dev"
    /\ LET v == comps[loc["stream"].slot].dev
       IN  IF v = NoDev
           THEN /\ pc' = [pc EXCEPT !["stream"] = "idle"]
                /\ loc' = [loc EXCEPT !["stream"].op = "skipped"]
           ELSE /\ pc' = [pc EXCEPT !["stream"] = "inv_hook"]
                /\ loc' = [loc EXCEPT !["stream"].seen.dev = v]
    /\ UNCHANGED <<comps, last>>
    /\ ConcFrame

\* ... && comp->playback_hook)
InvokeTestHook ==
    /\ pc["stream"] = "inv_hook"
    /\ LET v == comps[loc["stream"].slot].playback_hook
       IN  IF v = NULL
           THEN /\ pc' = [pc EXCEPT !["stream"] = "idle"]
                /\ loc' = [loc EXCEPT !["stream"].op = "skipped"]
           ELSE /\ pc' = [pc EXCEPT !["stream"] = "inv_call"]
                /\ loc' = [loc EXCEPT !["stream"].seen.playback_hook = v]
    /\ UNCHANGED <<comps, last>>
    /\ ConcFrame

\* comp->playback_hook(comp->dev, action): the fields are read again for the
\* call, or the values read for the test are used; the race with the stores
\* of bind and unbind leaves either to the compiler.  seen keeps the pointer
\* called and the device passed.
InvokeCall ==
    /\ pc["stream"] = "inv_call"
    /\ \E reload \in BOOLEAN :
          loc' = [loc EXCEPT
                    !["stream"].op = "called",
                    !["stream"].seen.dev =
                        IF reload THEN comps[loc["stream"].slot].dev
                        ELSE loc["stream"].seen.dev,
                    !["stream"].seen.playback_hook =
                        IF reload THEN comps[loc["stream"].slot].playback_hook
                        ELSE loc["stream"].seen.playback_hook]
    /\ pc' = [pc EXCEPT !["stream"] = "idle"]
    /\ UNCHANGED <<comps, last>>
    /\ ConcFrame

ConcNext ==
    \/ \E d \in Dev : ConcProbe(d)
    \/ \E d \in Dev : BindEnter(d)
    \/ BindStoreDev
    \/ BindStoreName
    \/ BindStoreHook
    \/ \E d \in Dev : UnbindEnter(d)
    \/ UnbindClearDev
    \/ UnbindClearName
    \/ UnbindClearHook
    \/ \E i \in Slots : LookupEnter(i)
    \/ LookupReadDev
    \/ LookupReadName
    \/ LookupReadHook
    \/ \E i \in Slots : InvokeEnter(i)
    \/ InvokeTestDev
    \/ InvokeTestHook
    \/ InvokeCall

ConcSpec == Init /\ [][ConcNext]_vars

(***************************************************************************)
(* Properties.                                                             *)
(***************************************************************************)
GlobalOn == RegWrite(MAX98390_R23FF_GLOBAL_EN, 1)
GlobalOff == RegWrite(MAX98390_R23FF_GLOBAL_EN, 0)
AmpOn == RegWrite(MAX98390_R203A_AMP_EN, 129)
AmpOff == RegWrite(MAX98390_R203A_AMP_EN, 128)

\* some entry a of the log s exists, and every entry b has an a before it
StrictlyBefore(s, a, b) ==
    /\ \E i \in 1..Len(s) : s[i] = a
    /\ \E j \in 1..Len(s) : s[j] = b
    /\ \A j \in 1..Len(s) : s[j] = b => \E i \in 1..(j - 1) : s[i] = a

HookRan(action) == last.op = "playback_hook" /\ last.action = action

\* C1: when the playback hook has handled an Open action, its writes hold
\* GLOBAL_EN (0x23FF) = 0x01 and AMP_EN (0x203A) = 0x81, both issued within
\* that one call, the GLOBAL_EN write strictly before the AMP_EN write.
C1_OpenOrder ==
    HookRan(HDA_GEN_PCM_ACT_OPEN) => StrictlyBefore(io, GlobalOn, AmpOn)

C1_Witness == HookRan(HDA_GEN_PCM_ACT_OPEN) /\ Len(io) = 2

\* C2: when the playback hook has handled a Close action, its writes hold
\* AMP_EN (0x203A) = 0x80 strictly before GLOBAL_EN (0x23FF) = 0x00: the
\* registers of Open in the reverse order.
C2_CloseOrder ==
    HookRan(HDA_GEN_PCM_ACT_CLOSE) =>
        /\ StrictlyBefore(io, AmpOff, GlobalOff)
        /\ \A i \in 1..Len(io) : io[i] \notin {GlobalOn, AmpOn}

C2_Witness == HookRan(HDA_GEN_PCM_ACT_CLOSE) /\ Len(io) = 2

\* the name of d ends in ".N" with N in 0..3
SuffixSlot(d) ==
    SuffixParses(clt[d].name) /\ SuffixValue(clt[d].name) \in Slots

\* C3: a device probed under a name with suffix ".N", N in 0..3, is bound at
\* slot N; a stream lifecycle on that slot (Open, then Prepare and Cleanup
\* actions, then Close) issues exactly the writes (GLOBAL_EN,0x01),
\* (AMP_EN,0x81), (AMP_EN,0x80), (GLOBAL_EN,0x00): after the Open and any
\* Prepare and Cleanup only the first two, after the Close all four.
C3_Lifecycle ==
    /\ \A d \in Dev :
          (last.op = "bind" /\ last.dev = d /\ SuffixSlot(d)) =>
              /\ last.ret = 0
              /\ comps[SuffixValue(clt[d].name)].dev = d
    /\ (life.phase # "idle" /\ SuffixSlot(life.dev)) =>
          /\ life.slot = SuffixValue(clt[life.dev].name)
          /\ life.phase = "open" => life.log = <<GlobalOn, AmpOn>>
          /\ life.phase = "closed" =>
                life.log = <<GlobalOn, AmpOn, AmpOff, GlobalOff>>
    /\ (HookRan(HDA_GEN_PCM_ACT_PREPARE) \/ HookRan(HDA_GEN_PCM_ACT_CLEANUP)) =>
          io = << >>

C3_Witness ==
    /\ life.phase = "closed"
    /\ life.mid = {HDA_GEN_PCM_ACT_PREPARE, HDA_GEN_PCM_ACT_CLEANUP}
    /\ SuffixSlot(life.dev)
    /\ life.slot = 2
    /\ Len(life.log) = 4

\* C4: after bind of a device whose index i is in 0..3, whatever the slot
\* held before, bind has returned 0 and the slot found for i holds the
\* device, its name and the playback hook of that call.
C4_BindThenLookup ==
    (last.op = "bind" /\ priv[last.dev].index \in Slots) =>
        /\ last.ret = 0
        /\ comps[hda_component_from_index(PARENT, priv[last.dev].index)]
             = [dev |-> last.dev, name |-> clt[last.dev].name,
                playback_hook |-> HOOK]

\* a bind that overwrote the slot of another device
C4_Witness ==
    /\ last.op = "bind"
    /\ last.ret = 0
    /\ last.old \notin {NoDev, last.dev}
    /\ comps[priv[last.dev].index].dev = last.dev

\* C5: a bind of a device whose index is outside 0..3 returns -EINVAL and
\* leaves every slot as it was.
C5_BindInvalidIndex ==
    [][ (last'.op = "bind" /\ priv[last'.dev].index \notin Slots) =>
            (last'.ret = EINVAL /\ comps' = comps) ]_vars

C5_Witness ==
    /\ last.op = "bind"
    /\ last.ret = EINVAL
    /\ priv[last.dev].index \notin Slots
    /\ \E i \in Slots : comps[i].dev # NoDev

\* C6: unbind of device d with index i empties slot i (device, name, hook)
\* if the slot held d, and then changes no other slot; if the slot held
\* another device or none, no slot changes; a second unbind of d changes
\* nothing.
C6_UnbindFrame ==
    [][ last'.op = "unbind" =>
          LET d == last'.dev
              i == priv[d].index
          IN  /\ Occupant(comps, i) = d =>
                    /\ comps'[i] = EmptySlot
                    /\ \A j \in Slots \ {i} : comps'[j] = comps[j]
              /\ Occupant(comps, i) # d => comps' = comps
              /\ UnbindComps(comps', d, i) = comps' ]_vars

\* an unbind by a device whose slot another device holds
C6_Witness ==
    /\ last.op = "unbind"
    /\ last.old \notin {NoDev, last.dev}
    /\ comps[priv[last.dev].index].dev = last.old

\* The registry slots are read and written with the mutex held, one
\* operation at a time, and a finished read of a slot is not torn.
InRegistryOp(t) == pc[t] # "idle"

\* a device without its name or hook, or a hook without its device
TornSlot(sn) ==
    \/ sn.dev # NoDev /\ (sn.name = << >> \/ sn.playback_hook = NULL)
    \/ sn.dev = NoDev /\ sn.playback_hook # NULL

\* a finished read of a slot by the stream thread is never torn
NoTornSnapshot ==
    loc["stream"].op = "looked" => ~TornSlot(loc["stream"].seen)

\* C7: every bind, unbind and slot read holds parent->mutex from its first
\* access of the slot array to its last, so no two of them overlap and no
\* finished read of a slot is torn (a device without its name or hook, or a
\* hook without its device).
C7_MutexHeld ==
    /\ \A t \in Threads : InRegistryOp(t) => mutex = t
    /\ ~(InRegistryOp("enum") /\ InRegistryOp("stream"))
    /\ NoTornSnapshot

\* the index the address table of the I2C probe gives
TableIndex == (56 :> 0) @@ (57 :> 1) @@ (60 :> 2) @@ (61 :> 3)

\* the device the last probe was for holds index i wherever the index shows
ProbedIndexIs(i) ==
    /\ last.created => last.index = i
    /\ priv[last.dev] # NoPriv => priv[last.dev].index = i

\* C8 as claimed: the index in the driver state of every probed device is in
\* 0..3, whatever its name and address.
C8_IndexInRange ==
    /\ \A d \in Dev : priv[d] # NoPriv => priv[d].index \in Slots
    /\ (last.op = "i2c_probe" /\ last.created) => last.index \in Slots

\* the name of d ends in a parseable ".N" with N outside 0..3
SuffixOutside(d) ==
    SuffixParses(clt[d].name) /\ SuffixValue(clt[d].name) \notin Slots

\* C8 amended: the index a probe stores is in 0..3 unless the name ends in a
\* parseable ".N" with N outside 0..3; then N itself is stored, and no slot
\* ever holds that device.
C8_IndexInRangeUnlessSuffix ==
    /\ \A d \in Dev : priv[d] # NoPriv =>
          /\ priv[d].index \in Slots <=> ~SuffixOutside(d)
          /\ SuffixOutside(d) => priv[d].index = SuffixValue(clt[d].name)
    /\ (last.op = "i2c_probe" /\ last.created) =>
          (last.index \in Slots <=> ~SuffixOutside(last.dev))
    /\ \A i \in Slots : comps[i].dev # NoDev => ~SuffixOutside(comps[i].dev)

\* a device with an index outside 0..3 whose bind was refused
C8_Witness ==
    /\ last.op = "bind"
    /\ last.ret = EINVAL
    /\ SuffixOutside(last.dev)
    /\ priv[last.dev].index \notin Slots

\* C9: for a name without a parseable ".N" suffix, a probe at address 0x38,
\* 0x39, 0x3c or 0x3d stores index 0, 1, 2 or 3; at any other address it
\* returns -EINVAL with no driver state created and no register accessed.
C9_AddressTable ==
    (last.op = "i2c_probe" /\ ~SuffixParses(clt[last.dev].name)) =>
        LET a == clt[last.dev].addr
        IN  IF a \in DOMAIN TableIndex
            THEN last.ret # EINVAL /\ ProbedIndexIs(TableIndex[a])
            ELSE /\ last.ret = EINVAL
                 /\ ~last.created
                 /\ priv[last.dev] = NoPriv
                 /\ io = << >>

\* a probe that failed for a name with an unparseable suffix at an address
\* outside the table
C9_Witness ==
    /\ last.op = "i2c_probe"
    /\ last.ret = EINVAL
    /\ strrchr(clt[last.dev].name, ".") # 0
    /\ ~SuffixParses(clt[last.dev].name)
    /\ clt[last.dev].addr \notin DOMAIN TableIndex
    /\ io = << >>

\* the decimal numeral of n
RECURSIVE Dec(_)
Dec(n) == IF n < 10 THEN <<Digits[n + 1]>>
          ELSE Dec(n \div 10) \o <<Digits[(n % 10) + 1]>>
Decimal(n) == IF n < 0 THEN <<"-">> \o Dec(0 - n) ELSE Dec(n)

\* the numbers whose numerals are tried as suffixes, and their numerals
SuffixNumbers == -99..999
DecimalOf == [n \in SuffixNumbers |-> Decimal(n)]

\* the numbers the text after the last '.' of a name is the numeral of
NumbersOfSuffix(name) ==
    LET p == strrchr(name, ".")
    IN  IF p = 0 THEN {}
        ELSE {n \in SuffixNumbers : DecimalOf[n] = Tail0(name, p)}

\* C10: for a name ending in ".N", N a decimal numeral (or any suffix the
\* parser accepts), the probe stores the index N whatever the address, and
\* never returns the unexpected-address error.
C10_SuffixPriority ==
    last.op = "i2c_probe" =>
        LET name == clt[last.dev].name
        IN  /\ \A n \in NumbersOfSuffix(name) :
                  last.ret # EINVAL /\ ProbedIndexIs(n)
            /\ SuffixParses(name) =>
                  last.ret # EINVAL /\ ProbedIndexIs(SuffixValue(name))

\* a probe that kept index 2 of the suffix at an address the table maps to
\* another index
C10_Witness ==
    /\ last.op = "i2c_probe"
    /\ last.ret = 0
    /\ NumbersOfSuffix(clt[last.dev].name) = {2}
    /\ clt[last.dev].addr = 61
    /\ priv[last.dev].index = 2


(***************************************************************************)
(* Properties of power management, initialization and remove.              *)
(***************************************************************************)
\* the accesses of the last handler that went to a register
Accesses(s) == {i \in 1..Len(s) : IsAccess(s[i])}

\* the power state of AmplifierDriverState
Suspended(d) == rm[d].cache_only

\* C11: every Suspend issues the write AMP_EN (0x203A) = 0x80 first, then,
\* whether or not that write failed, makes the register cache cache-only and
\* then marks it dirty; it returns 0 and leaves the device Suspended with
\* cache-only and dirty set.
C11_SuspendOrder ==
    last.op = "suspend" =>
        /\ io = << AmpOff, CacheOnlyCall(TRUE), MarkDirtyCall >>
        /\ fail \subseteq {1}
        /\ Suspended(last.dev)
        /\ rm[last.dev].cache_dirty
        /\ last.ret = 0

\* a Suspend of an open stream whose write failed: the amplifier is left on
C11_Witness ==
    /\ last.op = "suspend"
    /\ fail = {1}
    /\ ob[last.dev].stream = "open"
    /\ hw[last.dev][MAX98390_R203A_AMP_EN] = 129
    /\ Suspended(last.dev)
    /\ rm[last.dev].cache_dirty

\* C12: Resume clears cache-only mode and then syncs, and after it the
\* hardware holds, for every register written while the device was
\* Suspended, the last value written to it.
C12_ResumeReplays ==
    last.op = "resume" =>
        /\ ~Suspended(last.dev)
        /\ \E i, j \in 1..Len(io) :
              i < j /\ io[i] = CacheOnlyCall(FALSE) /\ io[j] = SyncCall
        /\ \A e \in ob[last.dev].pend : hw[last.dev][e.reg] = e.val

\* C13 as claimed: every remove issues the write AMP_EN (0x203A) = 0x80,
\* whatever happened to the device before.
C13_RemoveAlwaysWrites ==
    last.op = "remove" => \E i \in 1..Len(io) : io[i] = AmpOff

\* C13 amended: remove issues the write AMP_EN = 0x80 exactly when the device
\* has driver state with a register map, that is after a probe that
\* succeeded; for a device without driver state (never probed, or its probe
\* failed and released it) remove accesses no register and leaves the
\* hardware as it was.
C13_RemoveWritesIfState ==
    [][ last'.op = "remove" =>
          LET d == last'.dev
          IN  /\ (\E i \in 1..Len(io') : io'[i] = AmpOff) <=> priv[d] # NoPriv
              /\ priv[d] # NoPriv => ob[d].probe \in {"ok", "none"}
              /\ priv[d] = NoPriv => (Accesses(io') = {} /\ hw' = hw) ]_vars

\* a remove after a probe that failed at the software reset
C13_Witness ==
    /\ last.op = "remove"
    /\ ob[last.dev].probe = "reset"
    /\ io = << ComponentDelCall >>


\* the accesses and calls of a probe whose initialization runs to its end
WholeInit ==
    << RegRead(MAX98390_R24FF_REV_ID),
       RegWrite(MAX98390_SOFTWARE_RESET, 1),
       RegWrite(MAX98390_CLK_MON, 111),
       RegWrite(MAX98390_DAT_MON, 0),
       RegWrite(MAX98390_PWR_GATE_CTL, 0),
       RegWrite(MAX98390_PCM_RX_EN_A, 3),
       RegWrite(MAX98390_ENV_TRACK_VOUT_HEADROOM, 14),
       RegWrite(MAX98390_BOOST_BYPASS1, 70),
       RegWrite(MAX98390_FET_SCALING3, 3),
       RegWrite(MAX98390_PCM_MODE_CFG, 192),
       RegWrite(MAX98390_PCM_MASTER_MODE, 28),
       RegWrite(MAX98390_PCM_CLK_SETUP, 68),
       RegWrite(MAX98390_PCM_SR_SETUP, 8),
       GlobalOff,
       AmpOff,
       RegWrite(MAX98390_R23E1_DSP_GLOBAL_EN, 0),
       FiltersCall >>

\* the last handler was a probe of a followed device that got its memory
ProbeRan == last.op = "i2c_probe" /\ last.created /\ last.dev \in watch

\* the initialization of the last probe ran to its end and the probe went
\* on to add the component
InitCompleted == \E i \in 1..Len(io) : io[i] = ComponentAddCall

\* C14 as claimed: in a probe whose read of REV_ID succeeds the
\* initialization runs its whole sequence and succeeds, whichever of the
\* writes after it fail.
C14_OnlyRevIdFatal ==
    (ProbeRan /\ 1 \notin fail) =>
        /\ InitCompleted
        /\ SubSeq(io, 1, Len(WholeInit)) = WholeInit

\* C14 amended: a register failure is fatal for the read of REV_ID and for
\* the write of SOFTWARE_RESET, and for no other access: if these two
\* succeed the initialization runs its whole sequence and succeeds whichever
\* of the later writes fail; if one of them fails the probe returns the
\* error at once, adds no component and keeps no driver state.
C14_RevIdAndResetFatal ==
    ProbeRan =>
        /\ (1 \notin fail /\ 2 \notin fail) =>
              /\ InitCompleted
              /\ io = WholeInit \o << ComponentAddCall >>
              /\ last.ret \in ComponentAddRet
        /\ 1 \in fail =>
              /\ io = SubSeq(WholeInit, 1, 1)
              /\ last.ret = EIO /\ priv[last.dev] = NoPriv
        /\ 2 \in fail =>
              /\ io = SubSeq(WholeInit, 1, 2)
              /\ last.ret = EIO /\ priv[last.dev] = NoPriv

\* a probe that succeeded although every write after the software reset failed
C14_Witness ==
    /\ ProbeRan
    /\ last.ret = 0
    /\ fail = 3..16
    /\ priv[last.dev] # NoPriv

\* every write of the last handler that did not fail is in the register
\* (no handler writes a followed register twice)
ArrivedWrites ==
    \A i \in 1..Len(io) :
        (io[i].op = "write" /\ io[i].reg \in Regs /\ i \notin fail) =>
            hw[last.dev][io[i].reg] = io[i].val

\* C15: a failed register write aborts neither a PCM action nor a Suspend or
\* Resume: the hook issues all the writes of its action in order, the writes
\* that do not fail arrive, and the stream changes state; Suspend and Resume
\* make all their calls in order, change the power state and return 0.
C15_FailuresDoNotAbort ==
    /\ (last.op = "playback_hook" /\ last.dev \in watch) =>
          /\ last.action = HDA_GEN_PCM_ACT_OPEN =>
                (io = << GlobalOn, AmpOn >> /\ ob[last.dev].stream = "open")
          /\ last.action = HDA_GEN_PCM_ACT_CLOSE =>
                (io = << AmpOff, GlobalOff >> /\ ob[last.dev].stream = "closed")
          /\ last.action \in {HDA_GEN_PCM_ACT_PREPARE, HDA_GEN_PCM_ACT_CLEANUP} =>
                io = << >>
          /\ ArrivedWrites
    /\ last.op = "suspend" =>
          /\ io = << AmpOff, CacheOnlyCall(TRUE), MarkDirtyCall >>
          /\ ArrivedWrites
          /\ Suspended(last.dev) /\ rm[last.dev].cache_dirty
          /\ last.ret = 0
    /\ last.op = "resume" =>
          /\ io = << CacheOnlyCall(FALSE), SyncCall >>
          /\ ~Suspended(last.dev)
          /\ last.ret = 0

\* an Open whose first write failed and whose second write arrived
C15_Witness ==
    /\ last.op = "playback_hook"
    /\ last.action = HDA_GEN_PCM_ACT_OPEN
    /\ fail = {1}
    /\ hw[last.dev][MAX98390_R203A_AMP_EN] = 129
    /\ hw[last.dev][MAX98390_R23FF_GLOBAL_EN] # 1
    /\ ob[last.dev].stream = "open"

\* C16: a probe whose initialization completes issues, in this order, the read
\* of REV_ID, the software reset, the baseline writes, the PCM format writes,
\* GLOBAL_EN (0x23FF) = 0x00, AMP_EN (0x203A) = 0x80, DSP_GLOBAL_EN (0x23E1)
\* = 0x00 and the filter configuration, and only then adds the component; a
\* probe whose initialization fails adds none.  No probe writes AMP_EN = 0x81
\* or GLOBAL_EN = 0x01, AMP_EN never holds 0x81 from the reset on, and the
\* device is registered, not yet bound to a slot, with its stream closed and,
\* its writes not failing, with the amplifier and the global enable off.
C16_InitOrder ==
    ProbeRan =>
        /\ InitCompleted =>
              /\ io = WholeInit \o << ComponentAddCall >>
              /\ \A i \in 2..Len(trail) : trail[i].amp # 129 /\ trail[i].global # 1
              /\ ob[last.dev].stream = "closed"
              /\ 15 \notin fail => hw[last.dev][MAX98390_R203A_AMP_EN] = 128
              /\ 14 \notin fail => hw[last.dev][MAX98390_R23FF_GLOBAL_EN] = 0
        /\ last.ret = 0 => InitCompleted
        /\ \A i \in 1..Len(io) : io[i] \notin {AmpOn, GlobalOn}
        /\ \A i \in Slots : comps[i].dev # last.dev

\* a probe without a failure: the device is registered with the amplifier off
C16_Witness ==
    /\ ProbeRan
    /\ last.ret = 0
    /\ fail = {}
    /\ Len(io) = 18
    /\ hw[last.dev] = [r \in Regs |-> IF r = MAX98390_R203A_AMP_EN THEN 128 ELSE 0]


\* the amplifier is enabled only under the global enable
AmpUnderGlobal(v) == v.amp = 129 => v.global = 1

\* C18: for a device that is initialized, no register access of which has
\* failed since its initialization began, and whose handlers run one after
\* the other, the hardware holds AMP_EN = 0x81 only while it holds GLOBAL_EN
\* = 0x01: after every handler and after every single access inside a
\* handler that runs on the initialized device, the two writes of Open and
\* of Close included.
C18_AmpOnlyUnderGlobal ==
    \A d \in watch :
        (priv[d] # NoPriv /\ ob[d].clean) =>
            /\ AmpUnderGlobal(Snapshot(hw[d]))
            /\ (last.dev = d /\ last.op # "i2c_probe") =>
                  \A i \in 1..Len(trail) : AmpUnderGlobal(trail[i])

\* between the two writes of a Close that follows an Open: the amplifier is
\* off and the global enable still on
C18_Witness ==
    /\ last.op = "playback_hook"
    /\ last.action = HDA_GEN_PCM_ACT_CLOSE
    /\ ob[last.dev].clean
    /\ trail = << [amp |-> 128, global |-> 1], [amp |-> 128, global |-> 0] >>

\* a device whose stream is open and that was suspended and then resumed
\* since the stream was opened
ResumedOpen(d) == ob[d].stream = "open" /\ ob[d].cyc = "resumed"

HookCalled == loc["stream"].op = "called"

\* C17: when the stream thread calls a slot's playback hook while the
\* enumeration thread unbinds the slot's device, the pointer called and the
\* device passed come from a snapshot of the slot, so the call never goes
\* through a null hook pointer and never passes a null device.
C17_NoCallThroughClearedSlot ==
    HookCalled =>
        /\ loc["stream"].seen.playback_hook # NULL
        /\ loc["stream"].seen.dev # NoDev

=============================================================================
